---- MODULE Spec2Model ----
(***************************************************************************)
(* State-machine model of the agenticAI repository:                        *)
(*   scripts/handle_changed_files.py  the CI batch driver (BatchSpec)      *)
(*   source/app.py                    the web service: GET /team           *)
(*                                    (TeamSpec) and GET /image (ImageSpec)*)
(* Strings the code inspects (paths) are sequences of one-character        *)
(* strings, so that startswith, endswith, basename and splitext are        *)
(* computed as Python computes them.                                       *)
(***************************************************************************)
EXTENDS Integers, Sequences, FiniteSets, TLC

VARIABLES
    \* ---- scripts/handle_changed_files.py ----
    result,     \* result.stdout.strip().split('\n'): the lines the loop walks
    i,          \* position of the for loop in result (1-based)
    bpc,        \* where the loop body stands: loop, read, run, open, write, done
    contents,   \* local: text read from the artifact
    response,   \* local: what team.run returned
    reports,    \* files under reports/: output path -> [by, full]
    log,        \* the sequence of observable steps and printed lines
    \* ---- source/app.py, GET /team ----
    tpc,        \* per request: idle, create, run, pull, yield, done
    hdr,        \* per request: the X-Session-ID header it came with
    session_id, \* per request: the local session_id of ask_team
    minted,     \* the tokens uuid.uuid4() has handed out
    team,       \* per request: the Team instance its local team names
    teams,      \* the session_id field of each Team instance
    output,     \* per request: the iterable handed to generate
    resp,       \* per request: the response: header, body sent so far, state
    produced,   \* per request: the events the aggregator's stream has produced
    chunk,      \* per request: the loop variable of generate
    raised,     \* per request: the exception raised while serving it, if any
    used,       \* per request: the session_id values its run has worked under
    \* ---- source/app.py, GET /image ----
    image,      \* the file at IMAGE_PATH: NoFile or the number of the image
    images,     \* how many images have been generated
    ipc,        \* per request: idle, read, remove, done
    image_bytes,\* per request: the local image_bytes
    body,       \* per request: the body of its response
    removed     \* per request: the image its os.remove deleted

batchVars == <<result, i, bpc, contents, response, reports, log>>

teamVars == <<tpc, hdr, session_id, minted, team, teams, output, resp, produced,
              chunk, raised, used>>

imageVars == <<image, images, ipc, image_bytes, body, removed>>

vars == <<batchVars, teamVars, imageVars>>

(***************************************************************************)
(* Bounds and the inputs drawn from them                                   *)
(***************************************************************************)
\* longest list of changed paths the diff returns
MaxLen == 3

\* concurrent GET /team requests
NumReq == 2

\* most events one aggregator stream produces
MaxChunks == 2

\* concurrent GET /image requests
NumImgReq == 3

\* most images generated in one run
MaxImages == 2

\* paths a diff may name: accepted ones, wrong root, wrong extension, and
\* accepted ones that share a base name
P_app_py == <<"s", "o", "u", "r", "c", "e", "/", "a", "p", "p", ".", "p", "y">>

P_readme == <<"R", "E", "A", "D", "M", "E", ".", "m", "d">>

P_widget_js == <<"s", "o", "u", "r", "c", "e", "/", "w", "i", "d", "g", "e", "t", ".", "j", "s">>

P_app_js == <<"s", "o", "u", "r", "c", "e", "/", "a", "p", "p", ".", "j", "s">>

P_lib_app_py == <<"s", "o", "u", "r", "c", "e", "/", "l", "i", "b", "/", "a", "p", "p", ".", "p", "y">>

P_docs_app_py == <<"d", "o", "c", "s", "/", "a", "p", "p", ".", "p", "y">>

P_notes_txt == <<"s", "o", "u", "r", "c", "e", "/", "n", "o", "t", "e", "s", ".", "t", "x", "t">>

PathPool ==
    {P_app_py, P_readme, P_widget_js, P_app_js, P_lib_app_py, P_docs_app_py, P_notes_txt}

S_source == <<"s", "o", "u", "r", "c", "e", "/">>

S_py == <<".", "p", "y">>

S_js == <<".", "j", "s">>

S_md == <<".", "m", "d">>

S_reports == <<"r", "e", "p", "o", "r", "t", "s">>

R_app_md == <<"r", "e", "p", "o", "r", "t", "s", "/", "a", "p", "p", ".", "m", "d">>

R_widget_md == <<"r", "e", "p", "o", "r", "t", "s", "/", "w", "i", "d", "g", "e", "t", ".", "m", "d">>

(***************************************************************************)
(* Python string and path functions, as the interpreter computes them      *)
(***************************************************************************)
\* str.startswith
StartsWith(s, p) ==
    Len(s) >= Len(p) /\ SubSeq(s, 1, Len(p)) = p

\* str.endswith
EndsWith(s, p) ==
    Len(s) >= Len(p) /\ SubSeq(s, Len(s) - Len(p) + 1, Len(s)) = p

\* str.rfind, 1-based, 0 when c does not occur
LastIndexOf(s, c) ==
    LET hits == {k \in 1..Len(s) : s[k] = c}
    IN  IF hits = {} THEN 0 ELSE CHOOSE k \in hits : \A m \in hits : m <= k

\* os.path.basename: what follows the last separator
basename(p) ==
    SubSeq(p, LastIndexOf(p, "/") + 1, Len(p))

\* os.path.splitext(p)[0]: cut at the last dot, unless the name has only dots
\* before it (a leading-dot name keeps its dot)
splitext(p) ==
    LET dot == LastIndexOf(p, ".")
        sep == LastIndexOf(p, "/")
    IN  IF dot > sep /\ \E k \in (sep + 1)..(dot - 1) : p[k] # "."
        THEN SubSeq(p, 1, dot - 1)
        ELSE p

\* os.path.join('reports', f'{name}.md') for the artifact at path line
output_path(line) ==
    S_reports \o <<"/">> \o splitext(basename(line)) \o S_md

\* the filter of the batch loop
AcceptedAnyRoot(line) ==
    EndsWith(line, S_py) \/ EndsWith(line, S_js)

Accepted(line) ==
    StartsWith(line, S_source) /\ (EndsWith(line, S_py) \/ EndsWith(line, S_js))

\* result.stdout.strip().split('\n'): the paths in the order the diff printed
\* them; an empty output splits into one empty line
Reversed(s) ==
    [k \in 1..Len(s) |-> s[Len(s) + 1 - k]]

split_linesReversed(out) ==
    IF out = <<>> THEN << <<>> >> ELSE Reversed(out)

split_lines(out) ==
    IF out = <<>> THEN << <<>> >> ELSE out

Lines == split_lines(result)

\* make_prompt: the file's text inside the fixed wrapper
make_prompt(file_contents) ==
    <<"Solicit input", file_contents>>

\* what open(line).read() returns for the artifact at path line
FileText(line) ==
    <<"text of", line>>

\* team.run(prompt).content when the run succeeds
TeamReport(prompt) ==
    <<"report on", prompt>>

\* a local the loop has not assigned yet
Unset == <<"unset">>

\* the text of a file that was opened for writing and not written
EmptyText == <<>>

(***************************************************************************)
(* scripts/handle_changed_files.py: the batch loop                         *)
(***************************************************************************)
\* lists of distinct paths, as git diff --name-only prints each path once
DiffOutputs ==
    {s \in UNION {[1..n -> PathPool] : n \in 0..MaxLen} :
        \A a, b \in DOMAIN s : a # b => s[a] # s[b]}

BatchInit ==
    /\ result \in DiffOutputs
    /\ i = 1
    /\ bpc = "loop"
    /\ contents = Unset
    /\ response = Unset
    /\ reports = <<>>
    /\ log = <<>>

Step(ev, ok) ==
    [ev |-> ev, line |-> Lines[i], ok |-> ok]

\* the batch script is not running (the web service is a process of its own)
BatchIdle ==
    /\ result = <<>>
    /\ i = 1
    /\ bpc = "idle"
    /\ contents = Unset
    /\ response = Unset
    /\ reports = <<>>
    /\ log = <<>>

\* except Exception as e: print the error with the path, go on with the loop
ExceptAborts(done) ==
    /\ log' = log \o done \o <<Step("Error", TRUE)>>
    /\ bpc' = "done"
    /\ UNCHANGED i

Except(done) ==
    /\ log' = log \o done \o <<Step("Error", TRUE)>>
    /\ bpc' = "loop"
    /\ i' = i + 1

\* for line in ...: a line the filter rejects is passed over
BatchSkip ==
    /\ UNCHANGED <<teamVars, imageVars>>
    /\ bpc = "loop"
    /\ i <= Len(Lines)
    /\ ~Accepted(Lines[i])
    /\ i' = i + 1
    /\ UNCHANGED <<result, bpc, contents, response, reports, log>>

\* an accepted line enters the try block: print(f'Processing {line}')
BatchBegin ==
    /\ UNCHANGED <<teamVars, imageVars>>
    /\ bpc = "loop"
    /\ i <= Len(Lines)
    /\ Accepted(Lines[i])
    /\ log' = Append(log, Step("Processing", TRUE))
    /\ bpc' = "read"
    /\ UNCHANGED <<result, i, contents, response, reports>>

\* with open(line, 'r') as infile: contents = infile.read()
BatchRead ==
    /\ UNCHANGED <<teamVars, imageVars>>
    /\ bpc = "read"
    /\ \E ok \in BOOLEAN :
        IF ok
        THEN /\ contents' = FileText(Lines[i])
             /\ log' = Append(log, Step("read", TRUE))
             /\ bpc' = "run"
             /\ UNCHANGED <<result, i, response, reports>>
        ELSE /\ Except(<<Step("read", FALSE)>>)
             /\ UNCHANGED <<result, contents, response, reports>>

\* prompt = make_prompt(contents); response = team.run(prompt)
BatchRun ==
    /\ UNCHANGED <<teamVars, imageVars>>
    /\ bpc = "run"
    /\ \E ok \in BOOLEAN :
        IF ok
        THEN /\ response' = TeamReport(make_prompt(contents))
             /\ log' = Append(log, Step("run", TRUE))
             /\ bpc' = "open"
             /\ UNCHANGED <<result, i, contents, reports>>
        ELSE /\ Except(<<Step("run", FALSE)>>)
             /\ UNCHANGED <<result, contents, response, reports>>

\* open(output_path, 'w'): creates the file, or empties the one that is there
Truncated(path) ==
    [p \in (DOMAIN reports) \cup {path} |->
        IF p = path THEN [by |-> Lines[i], text |-> EmptyText] ELSE reports[p]]

BatchOpen ==
    /\ UNCHANGED <<teamVars, imageVars>>
    /\ bpc = "open"
    /\ \E ok \in BOOLEAN :
        IF ok
        THEN /\ reports' = Truncated(output_path(Lines[i]))
             /\ log' = Append(log, Step("open", TRUE))
             /\ bpc' = "write"
             /\ UNCHANGED <<result, i, contents, response>>
        ELSE /\ Except(<<Step("open", FALSE)>>)
             /\ UNCHANGED <<result, contents, response, reports>>

\* outfile.write(response.content), then the with block closes the file
BatchWrite ==
    /\ UNCHANGED <<teamVars, imageVars>>
    /\ bpc = "write"
    /\ \E ok \in BOOLEAN :
        IF ok
        THEN /\ reports' = [reports EXCEPT ![output_path(Lines[i])].text = response]
             /\ log' = Append(log, Step("write", TRUE))
             /\ bpc' = "loop"
             /\ i' = i + 1
             /\ UNCHANGED <<result, contents, response>>
        ELSE /\ Except(<<Step("write", FALSE)>>)
             /\ UNCHANGED <<result, contents, response, reports>>

\* the list is exhausted: the script ends normally
BatchDone ==
    /\ UNCHANGED <<teamVars, imageVars>>
    /\ bpc = "loop"
    /\ i > Len(Lines)
    /\ bpc' = "done"
    /\ UNCHANGED <<result, i, contents, response, reports, log>>

BatchNext ==
    \/ BatchSkip
    \/ BatchBegin
    \/ BatchRead
    \/ BatchRun
    \/ BatchOpen
    \/ BatchWrite
    \/ BatchDone

(***************************************************************************)
(* source/app.py: GET /team                                                *)
(***************************************************************************)
Reqs == 1..NumReq

\* request.headers.get('X-Session-ID') when the header is absent
NoHeader == <<"None">>

\* an X-Session-ID header sent with an empty value
EmptyHeader == <<"">>

\* str(uuid.uuid4()) as drawn by call n: no two calls draw the same token
uuid4Fixed(n) ==
    <<"uuid", 0>>

uuid4(n) ==
    <<"uuid", n>>

\* what a caller may send: nothing, an empty value, a token of its own
\* making, or a token an earlier response handed out
Headers ==
    {NoHeader, EmptyHeader, <<"client", 1>>} \cup minted

\* create_team(_memory) as called by request r: a Team instance of its own
\* for that call, its session_id not yet set
create_team(r) ==
    r

\* f"I'm sorry, but something went wrong. ({str(e)})": a str
Apology(e) ==
    [kind |-> "str", e |-> e]

\* team.run(user_input, stream=True): an iterator of run events
RunStream ==
    [kind |-> "stream", e |-> "none"]

\* next() on iter(chunks) for the str of the except branch: a 1-character str
CharAt(n) ==
    [kind |-> "char", content |-> <<"none", 0>>, at |-> n]

\* the n-th event the aggregator's stream produces, with its content attribute
Event(n) ==
    [kind |-> "event", content |-> <<"chunk", n>>, at |-> n]

\* chunk.content is defined on run events, not on str
HasContent(c) ==
    c.kind = "event"

NoOutput == [kind |-> "none", e |-> "none"]

NoResponse == [header |-> NoHeader, body |-> <<>>, state |-> "none"]

NoChunk == [kind |-> "none", content |-> <<"none", 0>>, at |-> 0]

TeamInit ==
    /\ tpc = [r \in Reqs |-> "idle"]
    /\ hdr = [r \in Reqs |-> NoHeader]
    /\ session_id = [r \in Reqs |-> NoHeader]
    /\ minted = {}
    /\ team = [r \in Reqs |-> 0]
    /\ teams = [t \in Reqs |-> NoHeader]
    /\ output = [r \in Reqs |-> NoOutput]
    /\ resp = [r \in Reqs |-> NoResponse]
    /\ produced = [r \in Reqs |-> <<>>]
    /\ chunk = [r \in Reqs |-> NoChunk]
    /\ raised = [r \in Reqs |-> "none"]
    /\ used = [r \in Reqs |-> {}]

\* lines 19-23: read the header, mint a token when there is none
AskTeamStart(r) ==
    /\ UNCHANGED <<batchVars, imageVars>>
    /\ tpc[r] = "idle"
    /\ \E h \in Headers :
        /\ hdr' = [hdr EXCEPT ![r] = h]
        /\ IF h \in {NoHeader, EmptyHeader}
           THEN /\ session_id' = [session_id EXCEPT ![r] = uuid4(r)]
                /\ minted' = minted \cup {uuid4(r)}
           ELSE /\ session_id' = [session_id EXCEPT ![r] = h]
                /\ UNCHANGED minted
    /\ tpc' = [tpc EXCEPT ![r] = "create"]
    /\ UNCHANGED <<team, teams, output, resp, produced, chunk, raised, used>>

\* lines 36-40: the except branch builds the response from the str
ExceptBranch(r, e) ==
    /\ raised' = [raised EXCEPT ![r] = e]
    /\ output' = [output EXCEPT ![r] = Apology(e)]
    /\ resp' = [resp EXCEPT ![r] =
            [header |-> session_id[r], body |-> <<>>, state |-> "open"]]
    /\ tpc' = [tpc EXCEPT ![r] = "pull"]

\* lines 26-27: team = create_team(_memory); team.session_id = session_id
AskTeamCreateShared(r) ==
    /\ UNCHANGED <<batchVars, imageVars>>
    /\ tpc[r] = "create"
    /\ \E ok \in BOOLEAN :
        IF ok
        THEN /\ team' = [team EXCEPT ![r] = 1]
             /\ teams' = [teams EXCEPT ![1] = session_id[r]]
             /\ tpc' = [tpc EXCEPT ![r] = "run"]
             /\ UNCHANGED <<output, resp, raised>>
        ELSE /\ ExceptBranch(r, "create_team")
             /\ UNCHANGED <<team, teams>>
    /\ UNCHANGED <<hdr, session_id, minted, produced, chunk, used>>

AskTeamCreate(r) ==
    /\ UNCHANGED <<batchVars, imageVars>>
    /\ tpc[r] = "create"
    /\ \E ok \in BOOLEAN :
        IF ok
        THEN /\ team' = [team EXCEPT ![r] = create_team(r)]
             /\ teams' = [teams EXCEPT ![create_team(r)] = session_id[r]]
             /\ tpc' = [tpc EXCEPT ![r] = "run"]
             /\ UNCHANGED <<output, resp, raised>>
        ELSE /\ ExceptBranch(r, "create_team")
             /\ UNCHANGED <<team, teams>>
    /\ UNCHANGED <<hdr, session_id, minted, produced, chunk, used>>

\* lines 30-34: output = team.run(user_input, stream=True); the response wraps
\* generate(output) and carries the token
AskTeamRun(r) ==
    /\ UNCHANGED <<batchVars, imageVars>>
    /\ tpc[r] = "run"
    /\ \E ok \in BOOLEAN :
        IF ok
        THEN /\ output' = [output EXCEPT ![r] = RunStream]
             /\ resp' = [resp EXCEPT ![r] =
                    [header |-> session_id[r], body |-> <<>>, state |-> "open"]]
             /\ used' = [used EXCEPT ![r] = @ \cup {teams[team[r]]}]
             /\ tpc' = [tpc EXCEPT ![r] = "pull"]
             /\ UNCHANGED raised
        ELSE /\ ExceptBranch(r, "team.run")
             /\ UNCHANGED used
    /\ UNCHANGED <<hdr, session_id, minted, team, teams, produced, chunk>>

\* the response is closed by an exception leaving the generator
Escapes(r, e) ==
    /\ resp' = [resp EXCEPT ![r].state = "broken"]
    /\ raised' = [raised EXCEPT ![r] = e]
    /\ tpc' = [tpc EXCEPT ![r] = "done"]

\* generate, line 44: for chunk in chunks asks the iterable for its next item
GenPullSkipsYield(r) ==
    /\ UNCHANGED <<batchVars, imageVars>>
    /\ tpc[r] = "pull"
    /\ output[r].kind = "stream"
    /\ Len(produced[r]) < MaxChunks
    /\ produced' = [produced EXCEPT ![r] = Append(@, Event(Len(@) + 1))]
    /\ chunk' = [chunk EXCEPT ![r] = Event(Len(produced[r]) + 1)]
    /\ UNCHANGED <<hdr, session_id, minted, team, teams, output, resp, raised, used, tpc>>

GenPull(r) ==
    /\ UNCHANGED <<batchVars, imageVars>>
    /\ tpc[r] = "pull"
    /\ IF output[r].kind = "str"
       THEN /\ chunk' = [chunk EXCEPT ![r] = CharAt(Len(resp[r].body) + 1)]
            /\ tpc' = [tpc EXCEPT ![r] = "yield"]
            /\ UNCHANGED <<produced, used, resp, raised>>
       ELSE \/ /\ Len(produced[r]) < MaxChunks
               /\ produced' = [produced EXCEPT ![r] = Append(@, Event(Len(@) + 1))]
               /\ chunk' = [chunk EXCEPT ![r] = Event(Len(produced[r]) + 1)]
               /\ used' = [used EXCEPT ![r] = @ \cup {teams[team[r]]}]
               /\ tpc' = [tpc EXCEPT ![r] = "yield"]
               /\ UNCHANGED <<resp, raised>>
            \* the aggregator's stream raises while producing
            \/ /\ Escapes(r, "stream")
               /\ UNCHANGED <<produced, chunk, used>>
    /\ UNCHANGED <<hdr, session_id, minted, team, teams, output>>

\* generate, line 44: the iterable is exhausted and the generator returns (the
\* str of the except branch never gets there: its first item stops generate)
GenEnd(r) ==
    /\ UNCHANGED <<batchVars, imageVars>>
    /\ tpc[r] = "pull"
    /\ output[r].kind = "stream"
    /\ resp' = [resp EXCEPT ![r].state = "complete"]
    /\ tpc' = [tpc EXCEPT ![r] = "done"]
    /\ UNCHANGED <<hdr, session_id, minted, team, teams, output, produced, chunk,
                   raised, used>>

\* generate, line 45: yield chunk.content hands the content to the caller
GenYield(r) ==
    /\ UNCHANGED <<batchVars, imageVars>>
    /\ tpc[r] = "yield"
    /\ IF HasContent(chunk[r])
       THEN /\ resp' = [resp EXCEPT ![r].body = Append(@, chunk[r].content)]
            /\ tpc' = [tpc EXCEPT ![r] = "pull"]
            /\ UNCHANGED raised
       ELSE Escapes(r, "AttributeError")
    /\ UNCHANGED <<hdr, session_id, minted, team, teams, output, produced, chunk, used>>

TeamNext ==
    \E r \in Reqs :
        \/ AskTeamStart(r)
        \/ AskTeamCreate(r)
        \/ AskTeamRun(r)
        \/ GenPull(r)
        \/ GenYield(r)
        \/ GenEnd(r)

(***************************************************************************)
(* source/app.py: GET /image                                               *)
(***************************************************************************)
ImgReqs == 1..NumImgReq

\* no file at IMAGE_PATH
NoFile == 0

\* base64.b64encode(image_bytes).decode('utf-8') inside the data URI
DataUri(bytes) ==
    <<"data:image/png;base64,", <<"b64", bytes>>>>

\* Response('')
EmptyBody == <<"", <<"b64", 0>>>>

\* an unhandled exception leaves get_image: the caller gets a server error
ServerError == <<"500", <<"b64", 0>>>>

Pending == <<"pending", <<"b64", 0>>>>

ImageInit ==
    /\ image = NoFile
    /\ images = 0
    /\ ipc = [q \in ImgReqs |-> "idle"]
    /\ image_bytes = [q \in ImgReqs |-> NoFile]
    /\ body = [q \in ImgReqs |-> Pending]
    /\ removed = [q \in ImgReqs |-> NoFile]

\* the team's image tool writes a new image to IMAGE_PATH
GenerateImage ==
    /\ UNCHANGED <<batchVars, teamVars>>
    /\ images < MaxImages
    /\ images' = images + 1
    /\ image' = images + 1
    /\ UNCHANGED <<ipc, image_bytes, body, removed>>

\* line 52: os.path.exists(IMAGE_PATH); line 60 when there is no file
GetImageExists(q) ==
    /\ UNCHANGED <<batchVars, teamVars>>
    /\ ipc[q] = "idle"
    /\ IF image # NoFile
       THEN /\ ipc' = [ipc EXCEPT ![q] = "read"]
            /\ UNCHANGED body
       ELSE /\ ipc' = [ipc EXCEPT ![q] = "done"]
            /\ body' = [body EXCEPT ![q] = EmptyBody]
    /\ UNCHANGED <<image, images, image_bytes, removed>>

\* lines 53-54: open(IMAGE_PATH, 'rb') and read; open raises when the file
\* is gone
GetImageRead(q) ==
    /\ UNCHANGED <<batchVars, teamVars>>
    /\ ipc[q] = "read"
    /\ IF image # NoFile
       THEN /\ image_bytes' = [image_bytes EXCEPT ![q] = image]
            /\ ipc' = [ipc EXCEPT ![q] = "remove"]
            /\ UNCHANGED body
       ELSE /\ body' = [body EXCEPT ![q] = ServerError]
            /\ ipc' = [ipc EXCEPT ![q] = "done"]
            /\ UNCHANGED image_bytes
    /\ UNCHANGED <<image, images, removed>>

\* lines 56-60: encode, os.remove(IMAGE_PATH), return; os.remove raises when
\* the file is gone
GetImageRemove(q) ==
    /\ UNCHANGED <<batchVars, teamVars>>
    /\ ipc[q] = "remove"
    /\ IF image # NoFile
       THEN /\ removed' = [removed EXCEPT ![q] = image]
            /\ image' = NoFile
            /\ body' = [body EXCEPT ![q] = DataUri(image_bytes[q])]
       ELSE /\ body' = [body EXCEPT ![q] = ServerError]
            /\ UNCHANGED <<image, removed>>
    /\ ipc' = [ipc EXCEPT ![q] = "done"]
    /\ UNCHANGED <<images, image_bytes>>

ImageNext ==
    \/ GenerateImage
    \/ \E q \in ImgReqs :
        \/ GetImageExists(q)
        \/ GetImageRead(q)
        \/ GetImageRemove(q)

(***************************************************************************)
(* Specifications: one per program                                         *)
(***************************************************************************)
BatchStart == BatchInit /\ TeamInit /\ ImageInit

BatchSpec == BatchStart /\ [][BatchNext]_vars

ServiceStart == BatchIdle /\ TeamInit /\ ImageInit

TeamSpec == ServiceStart /\ [][TeamNext]_vars

ImageSpec == ServiceStart /\ [][ImageNext]_vars

(***************************************************************************)
(* Properties of the batch loop                                            *)
(***************************************************************************)
\* positions of the log that record step ev of the artifact at path line
Entries(line, ev) ==
    {k \in DOMAIN log : log[k].line = line /\ log[k].ev = ev}

\* the artifact's read, run and write all went through
Processed(line) ==
    \E k \in DOMAIN log : log[k] = [ev |-> "write", line |-> line, ok |-> TRUE]

\* the place of a path in the diff output
Place(line) ==
    CHOOSE k \in DOMAIN result : result[k] = line

\* under the root source/ with the extension .py or .js
UnderRootWithExtension(line) ==
    /\ Len(line) >= 10
    /\ SubSeq(line, 1, 7) = S_source
    /\ SubSeq(line, Len(line) - 2, Len(line)) \in {S_py, S_js}

\* C1: a step of one artifact that raises is followed at once by the Error
\* line naming that artifact, and the loop ends only after the whole list:
\* at the end every accepted path was started exactly once, whatever failed.
C1_FailureIsolated ==
    /\ \A k \in DOMAIN log :
        ~log[k].ok =>
            /\ k < Len(log)
            /\ log[k + 1] = [ev |-> "Error", line |-> log[k].line, ok |-> TRUE]
    /\ bpc = "done" =>
        /\ i > Len(result)
        /\ \A k \in DOMAIN result :
            Cardinality(Entries(result[k], "Processing")) =
                IF UnderRootWithExtension(result[k]) THEN 1 ELSE 0

\* C1 witness: the run ended, an artifact failed, and a later one was started
\* after that failure
C1_Witness ==
    /\ bpc = "done"
    /\ \E a, b \in DOMAIN log :
        /\ a < b
        /\ ~log[a].ok
        /\ log[b].ev = "Processing"
        /\ log[b].line # log[a].line

\* C2: at the end of a run the report files correspond one to one to the
\* artifacts that passed the filter and were read, reviewed and written: each
\* such artifact has a file of its own holding its report, there are no other
\* files, and an artifact that was rejected or that failed has no file.
C2_OneReportPerArtifact ==
    bpc = "done" =>
        /\ \A k \in DOMAIN result :
            Processed(result[k]) =>
                \E p \in DOMAIN reports :
                    /\ reports[p].by = result[k]
                    /\ reports[p].text =
                            TeamReport(make_prompt(FileText(result[k])))
        /\ Cardinality(DOMAIN reports) =
                Cardinality({k \in DOMAIN result : Processed(result[k])})
        /\ \A k \in DOMAIN result :
            ~Processed(result[k]) =>
                \A p \in DOMAIN reports : reports[p].by # result[k]

C8_SequentialInDiffOrder ==
    /\ \A a, b \in DOMAIN log :
        a < b => Place(log[a].line) <= Place(log[b].line)
    /\ \A b \in DOMAIN log :
        (log[b].ev = "Processing" /\ b > 1) =>
            /\ log[b - 1].ev \in {"write", "Error"}
            /\ log[b - 1].line # log[b].line

\* C8 witness: two artifacts were taken through all their steps, the first of
\* them failing at its write
C8_Witness ==
    /\ bpc = "done"
    /\ \E a, b \in DOMAIN log :
        /\ a < b
        /\ log[a].ev = "write" /\ ~log[a].ok
        /\ log[b].ev = "write" /\ log[b].ok

(***************************************************************************)
(* Properties of GET /team                                                 *)
(***************************************************************************)
\* the request came without a usable X-Session-ID
Headerless(r) ==
    hdr[r] \in {NoHeader, EmptyHeader}

\* ask_team has returned a response for the request
Answered(r) ==
    resp[r].state # "none"

\* the body a caller reads when the str of the except branch is streamed
ApologyBody(e) ==
    <<"I'm sorry, but something went wrong. (", e, ")">>

\* C3: when creating the team, starting the run or the stream raises, the
\* response still carries the session token, no exception leaves the handler
\* or the generator, and the finished body is the apologetic message.
C3_FailureIsGraceful ==
    \A r \in Reqs :
        raised[r] # "none" =>
            /\ Answered(r)
            /\ resp[r].header = session_id[r]
            /\ resp[r].state # "broken"
            /\ tpc[r] = "done" =>
                /\ resp[r].state = "complete"
                /\ resp[r].body = ApologyBody(output[r].e)

\* C4: the response's X-Session-ID is the effective token: the supplied value
\* when one was supplied, otherwise a token minted for this request, which no
\* other header-less request received.
C4_SessionHeader ==
    \A r \in Reqs :
        Answered(r) =>
            /\ resp[r].header = session_id[r]
            /\ ~Headerless(r) => resp[r].header = hdr[r]
            /\ Headerless(r) =>
                /\ resp[r].header[1] = "uuid"
                /\ \A q \in Reqs \ {r} :
                    (Headerless(q) /\ Answered(q)) =>
                        resp[q].header # resp[r].header

\* C4 witness: two header-less requests and answers on both branches: one from
\* the try block and one from the except branch
C4_Witness ==
    \E r, q \in Reqs :
        /\ r # q
        /\ Headerless(r) /\ Headerless(q)
        /\ Answered(r) /\ Answered(q)
        /\ raised[r] = "none"
        /\ raised[q] = "create_team"

\* C9: what the caller has received is the contents of the events produced so
\* far, in order, and lags the aggregator by at most the one event in hand:
\* an event is passed on before the next one is asked for.
C9_StreamedUnbuffered ==
    \A r \in Reqs :
        output[r].kind = "stream" =>
            /\ Len(resp[r].body) <= Len(produced[r])
            /\ \A k \in DOMAIN resp[r].body :
                resp[r].body[k] = produced[r][k].content
            /\ Len(produced[r]) - Len(resp[r].body) <= 1
            /\ tpc[r] = "pull" => Len(resp[r].body) = Len(produced[r])

\* C9 witness: the caller holds the first chunk while the aggregator has just
\* produced the second and the run is not over
C9_Witness ==
    \E r \in Reqs :
        /\ output[r].kind = "stream"
        /\ tpc[r] = "yield"
        /\ Len(resp[r].body) = 1
        /\ Len(produced[r]) = 2

Consumers(n) ==
    {q \in ImgReqs : body[q] = DataUri(n)}

\* C5: under every interleaving each image is returned by at most one
\* request, which is the one that deleted it, and every other request ends
\* with an empty body: none fails.
C5_OneShot ==
    /\ \A q \in ImgReqs : body[q] # ServerError
    /\ \A n \in 1..images :
        /\ Cardinality(Consumers(n)) <= 1
        /\ \A q \in Consumers(n) : removed[q] = n
    /\ \A q \in ImgReqs :
        ipc[q] = "done" => (body[q] = EmptyBody \/ \E n \in 1..images : q \in Consumers(n))

====
